---- MODULE Spec2Model ----
(***************************************************************************)
(* Model of src/main.py: a hash chain ("Tree") of Nodes, each holding a    *)
(* Value (String or Array of Strings) and a running sha256 accumulator.    *)
(*                                                                         *)
(* sha256 is modelled as an ideal (collision-free) hash: an accumulator is *)
(* the byte stream fed to it so far, and the digest of a stream s is the   *)
(* term "H(s)".  Byte streams are TLA+ strings; the contents of Strings    *)
(* are drawn from letters only, so a stream parses in one way only.        *)
(***************************************************************************)
EXTENDS Naturals, Sequences, FiniteSets, TLC

\* Bounds of the model.
MaxNodes == 3          \* appends to one Tree
MaxItems == 2          \* items of an Array
MaxHeld == 3           \* items of all the Arrays of the heap together
MaxSeq == 3            \* values of a sequence whose orders are compared
MaxInit == 1           \* Nodes of the chain before the concurrent calls

\* Contents of the String objects the callers construct.
Contents == {"", "a"}

\* Python's None, for Optional[Node] references (Node objects are 1, 2, ...).
None == 0

VARIABLES
    INIT_HASHER,   \* the module-level accumulator, main.py line 8
    vals,          \* heap of Value objects: vals[i] is object i
    nodes,         \* heap of Node objects: nodes[i] is object i
    root,          \* tree._root: a Node object or None
    result,        \* outcome of the call that just returned, if it was verify()
    history,       \* the Value objects passed to append, in call order
    appended,      \* appended[i]: the digest Node i's value had at construction
    xs, ys,        \* a sequence of Values, and the same Values in some order
    pc,            \* the position of the caller that compares the two orders
    tailX, tailY,  \* the tail hashes of the chains built from xs and from ys
    arrX, arrY,    \* the digests of the Arrays built from xs and from ys
    serialized,    \* whether the callers of append hold a mutex around the call
    lock,          \* the holder of that mutex, or None
    apc,           \* apc[t]: the position of thread t in its call of append
    avalue,        \* avalue[t]: the Value object thread t appends
    aparent,       \* aparent[t]: the tail thread t has read for its new Node
    anew,          \* anew[t]: the Node thread t has constructed
    vpc,           \* the position of the thread that calls verify
    vfirst,        \* the tail verify read to start its walk (line 94)
    vhex,          \* the hexdigest verify has recomputed (lines 98-100)
    vlast,         \* the tail verify read for the comparison (line 102)
    cls_root,      \* the class attribute Tree._root
    inst_root,     \* inst_root[t]: the instance attribute _root of Tree t, if set
    logs           \* logs[t]: the Value objects appended to Tree t, in order

\* The state of the program with one Tree, and of the comparison of orders.
treeVars == <<vals, nodes, root, result, history, appended>>
orderVars == <<xs, ys, pc, tailX, tailY, arrX, arrY>>
concVars == <<serialized, lock, apc, avalue, aparent, anew,
              vpc, vfirst, vhex, vlast>>
twoVars == <<cls_root, inst_root, logs>>
vars == <<INIT_HASHER, treeVars, orderVars, concVars, twoVars>>

----------------------------------------------------------------------------
(* hashlib.sha256 *)

\* str.encode(): the contents are ASCII, whose UTF-8 bytes are the characters.
encode(s) == s

\* hashlib.sha256(data): a new accumulator that has been fed data.
sha256(data) == data

\* hasher.copy(): a new accumulator with the same stream.
copy(hasher) == hasher

\* hasher.update(data): the stream grows by data.
update(hasher, data) == hasher \o data

\* hasher.digest(): the 32 bytes that stand for the stream, as one term.
sha256_digest(hasher) == "H(" \o hasher \o ")"

\* bytes.hex(): bytes written in hexadecimal.
hex(bytes) == "hex:" \o bytes

\* hasher.hexdigest(): the digest's bytes written in hexadecimal.
hexdigest(hasher) == "hex:" \o sha256_digest(hasher)

----------------------------------------------------------------------------
(* Values *)

\* String(s)
String(s) == [cls |-> "String", s |-> s, items |-> <<>>]

\* Array(items): items is a sequence of String objects.
Array(items) == [cls |-> "Array", s |-> "", items |-> items]

\* String.digest
String_digest(v) == sha256_digest(sha256(encode(v.s)))

\* The loop of Array.digest: feed the digests of items[i..] into hasher.
RECURSIVE FeedItems(_, _, _)
FeedItems(hasher, items, i) ==
    IF i > Len(items) THEN hasher
    ELSE FeedItems(update(hasher, String_digest(items[i])), items, i + 1)

\* The contents of items[i..], one after the other.
RECURSIVE Joined(_, _)
Joined(items, i) ==
    IF i > Len(items) THEN "" ELSE encode(items[i].s) \o Joined(items, i + 1)

\* Faulty Array.digest: the accumulator is fed the items' contents, not the
\* items' digests.
Array_digest_Joined(v) ==
    sha256_digest(update(copy(INIT_HASHER), Joined(v.items, 1)))

\* Faulty Array.digest: the accumulator is fed a tag for the class before the
\* items' digests.
Array_digest_Tagged(v) ==
    sha256_digest(FeedItems(update(copy(INIT_HASHER), "Array"), v.items, 1))

\* Array.digest
Array_digest(v) == sha256_digest(FeedItems(copy(INIT_HASHER), v.items, 1))

\* value.digest, dispatched on the class of the object
digest(v) == IF v.cls = "String" THEN String_digest(v) ELSE Array_digest(v)

----------------------------------------------------------------------------
(* Nodes and the Tree.  S is the object graph: [vals, nodes, root]. *)

\* Faulty Node.__init__: every Node starts from INIT_HASHER, the predecessor's
\* accumulator is not carried on.
Node_NoChain(S, value, parent) ==
    [hasher |-> update(copy(INIT_HASHER), digest(S.vals[value])),
     value  |-> value,
     parent |-> parent]

\* Faulty Node.__init__: a new accumulator is fed the predecessor's finished
\* digest instead of continuing a copy of the predecessor's accumulator.
Node_Finalized(S, value, parent) ==
    [hasher |-> update(IF parent = None THEN copy(INIT_HASHER)
                       ELSE sha256(sha256_digest(S.nodes[parent].hasher)),
                       digest(S.vals[value])),
     value  |-> value,
     parent |-> parent]

\* Faulty Node.__init__: the first Node's accumulator is fed the digest of
\* the empty input before the value's digest.
Node_SeedDigest(S, value, parent) ==
    [hasher |-> update(IF parent = None
                       THEN sha256(sha256_digest(copy(INIT_HASHER)))
                       ELSE copy(S.nodes[parent].hasher),
                       digest(S.vals[value])),
     value  |-> value,
     parent |-> parent]

\* Faulty Node.__init__: the value's digest is never fed to the accumulator.
Node_NoUpdate(S, value, parent) ==
    [hasher |-> copy(IF parent = None THEN INIT_HASHER
                                      ELSE S.nodes[parent].hasher),
     value  |-> value,
     parent |-> parent]

\* Faulty Node.__init__: the predecessor is not stored.
Node_Orphan(S, value, parent) ==
    [hasher |-> update(copy(IF parent = None THEN INIT_HASHER
                                             ELSE S.nodes[parent].hasher),
                       digest(S.vals[value])),
     value  |-> value,
     parent |-> None]

\* Node.__init__(value, parent): value is a Value object of S, parent a Node
\* object of S or None.  The accumulator is a copy, fed the value's digest once.
Node(S, value, parent) ==
    [hasher |-> update(copy(IF parent = None THEN INIT_HASHER
                                             ELSE S.nodes[parent].hasher),
                       digest(S.vals[value])),
     value  |-> value,
     parent |-> parent]

\* Node.hash
Node_hash(n) == hexdigest(n.hasher)

\* Tree(): no instance attribute yet, so root reads the class attribute None.
Tree(vs) == [vals |-> vs, nodes |-> <<>>, root |-> None]

\* Faulty Tree.append: the new Node shares the accumulator object of its
\* predecessor instead of copying it, so the update reaches both.
Tree_append_Shared(S, value) ==
    LET new == [hasher |-> update(IF S.root = None THEN copy(INIT_HASHER)
                                  ELSE S.nodes[S.root].hasher,
                                  digest(S.vals[value])),
                value  |-> value,
                parent |-> S.root]
        old == IF S.root = None THEN S.nodes
               ELSE [S.nodes EXCEPT ![S.root].hasher = new.hasher]
    IN  [S EXCEPT !.nodes = Append(old, new), !.root = Len(S.nodes) + 1]

\* Faulty Tree.append: the new Node is constructed without its predecessor.
Tree_append_Unlinked(S, value) ==
    [S EXCEPT !.nodes = Append(S.nodes,
                               [hasher |-> update(copy(INIT_HASHER),
                                                  digest(S.vals[value])),
                                value  |-> value,
                                parent |-> None]),
              !.root  = Len(S.nodes) + 1]

\* Tree.append(value): self._root = Node(value, parent=self.root)
Tree_append(S, value) ==
    [S EXCEPT !.nodes = Append(S.nodes, Node(S, value, S.root)),
              !.root  = Len(S.nodes) + 1]

\* Faulty loop of Tree.from_iter: the values are taken last-first.
RECURSIVE AppendAll_Reversed(_, _, _)
AppendAll_Reversed(S, values, i) ==
    IF i > Len(values) THEN S
    ELSE AppendAll_Reversed(Tree_append(S, values[Len(values) + 1 - i]),
                            values, i + 1)

\* The loop of Tree.from_iter over values[i..].
RECURSIVE AppendAll(_, _, _)
AppendAll(S, values, i) ==
    IF i > Len(values) THEN S
    ELSE AppendAll(Tree_append(S, values[i]), values, i + 1)

\* Tree.from_iter(values): the Value objects vs[1], ..., vs[Len(vs)] in order.
Tree_from_iter(vs) == AppendAll(Tree(vs), [i \in 1..Len(vs) |-> i], 1)

\* The walk of Tree.__repr__: the Nodes visited from node on, in visiting order.
RECURSIVE Visit(_, _)
Visit(S, node) ==
    IF node = None THEN <<>> ELSE <<node>> \o Visit(S, S.nodes[node].parent)

\* Tree.__repr__, as far as the traversal goes: the Nodes from the tail back.
Tree_repr(S) == Visit(S, S.root)

\* Faulty first loop of Tree.verify: each Node visited is put at the end.
RECURSIVE Ancestors_Appended(_, _, _)
Ancestors_Appended(S, node, ancestors) ==
    IF node = None THEN ancestors
    ELSE Ancestors_Appended(S, S.nodes[node].parent, ancestors \o <<node>>)

\* The first loop of Tree.verify: each Node visited is inserted at the front.
RECURSIVE Ancestors(_, _, _)
Ancestors(S, node, ancestors) ==
    IF node = None THEN ancestors
    ELSE Ancestors(S, S.nodes[node].parent, <<node>> \o ancestors)

\* The second loop of Tree.verify: feed the current digests of the values of
\* ancestors[i..] into hasher.
RECURSIVE FeedNodes(_, _, _, _)
FeedNodes(S, hasher, ancestors, i) ==
    IF i > Len(ancestors) THEN hasher
    ELSE FeedNodes(S,
                   update(hasher, digest(S.vals[S.nodes[ancestors[i]].value])),
                   ancestors, i + 1)

\* Faulty recomputation: only the tail's value is rehashed, onto the
\* accumulator its predecessor has stored.
Recomputed_Cached(S) ==
    IF S.root = None THEN hexdigest(copy(INIT_HASHER))
    ELSE hexdigest(update(copy(IF S.nodes[S.root].parent = None THEN INIT_HASHER
                               ELSE S.nodes[S.nodes[S.root].parent].hasher),
                          digest(S.vals[S.nodes[S.root].value])))

\* The digest Tree.verify recomputes from the values alone.
Recomputed(S) ==
    hexdigest(FeedNodes(S, copy(INIT_HASHER), Ancestors(S, S.root, <<>>), 1))

\* Faulty Tree.verify: the tail is read without the test for None.
Tree_verify_NoGuard(S) ==
    IF S.root = None THEN "AttributeError"
    ELSE IF Recomputed(S) # Node_hash(S.nodes[S.root]) THEN "AssertionError"
    ELSE "ok"

\* Tree.verify(): returns None ("ok") or raises AssertionError.  Assertions
\* are enabled, as when the module is run the way its demo is.
Tree_verify(S) ==
    IF S.root # None /\ Recomputed(S) # Node_hash(S.nodes[S.root])
    THEN "AssertionError"
    ELSE "ok"

----------------------------------------------------------------------------
(* The program: one Tree and the callers' operations on it. *)

\* The object graph of the current state.
Graph == [vals |-> vals, nodes |-> nodes, root |-> root]

\* Sequences over S of length at most n.
SeqsUpTo(S, n) == UNION {[1..k -> S] : k \in 0..n}

\* The Value objects a caller constructs.
Strings == {String(s) : s \in Contents}
Arrays == {Array(items) : items \in SeqsUpTo(Strings, MaxItems)}
Values == Strings \cup Arrays

\* The number of items of the Arrays among vs[1..n].
RECURSIVE Held(_, _)
Held(vs, n) == IF n = 0 THEN 0 ELSE Len(vs[n].items) + Held(vs, n - 1)

\* No thread is calling append or verify.
Appenders == {1, 2}
ConcOff ==
    /\ serialized = FALSE
    /\ lock = None
    /\ apc = [t \in Appenders |-> "off"]
    /\ avalue = [t \in Appenders |-> None]
    /\ aparent = [t \in Appenders |-> None]
    /\ anew = [t \in Appenders |-> None]
    /\ vpc = "off"
    /\ vfirst = None
    /\ vhex = ""
    /\ vlast = None

\* There is no second Tree.
Trees == {1, 2}
TwoOff ==
    /\ cls_root = None
    /\ inst_root = [t \in Trees |-> <<>>]
    /\ logs = [t \in Trees |-> <<>>]

Init ==
    /\ INIT_HASHER = sha256("")
    /\ vals = <<>>
    /\ nodes = <<>>
    /\ root = None
    /\ result = "none"
    /\ history = <<>>
    /\ appended = <<>>
    /\ xs = <<>>
    /\ ys = <<>>
    /\ pc = "off"
    /\ tailX = ""
    /\ tailY = ""
    /\ arrX = ""
    /\ arrY = ""
    /\ ConcOff
    /\ TwoOff

\* tree.append(value) for a Value object of the heap.
AppendObject(vs, value) ==
    LET S == Tree_append([vals |-> vs, nodes |-> nodes, root |-> root], value)
    IN  /\ vals' = S.vals
        /\ nodes' = S.nodes
        /\ root' = S.root
        /\ history' = Append(history, value)
        /\ appended' = Append(appended, digest(vs[value]))
        /\ result' = "none"
        /\ UNCHANGED <<INIT_HASHER, orderVars, concVars, twoVars>>

\* tree.append(v) with a newly constructed Value v.
AppendNew(v) ==
    /\ Len(nodes) < MaxNodes
    /\ Held(vals, Len(vals)) + Len(v.items) <= MaxHeld
    /\ AppendObject(Append(vals, v), Len(vals) + 1)

\* tree.append(x) with a Value object x some Node already holds.
AppendHeld(value) ==
    /\ Len(nodes) < MaxNodes
    /\ AppendObject(vals, value)

\* array._value[i] = String(s) on an Array some Node holds (main.py line 115).
Mutate(value, i, s) ==
    /\ vals[value].cls = "Array"
    /\ i \in 1..Len(vals[value].items)
    /\ vals' = [vals EXCEPT ![value].items[i] = String(s)]
    /\ result' = "none"
    /\ UNCHANGED <<INIT_HASHER, nodes, root, history, appended, orderVars, concVars, twoVars>>

\* Faulty tree.verify(): on a mismatch the tail's accumulator is replaced by
\* the recomputed one before the error is raised.
Verify_Repairs ==
    /\ result' = Tree_verify(Graph)
    /\ nodes' = IF Tree_verify(Graph) = "AssertionError"
                THEN [nodes EXCEPT ![root].hasher =
                         FeedNodes(Graph, copy(INIT_HASHER),
                                   Ancestors(Graph, root, <<>>), 1)]
                ELSE nodes
    /\ UNCHANGED <<INIT_HASHER, vals, root, history, appended, orderVars, concVars, twoVars>>

\* tree.verify()
Verify ==
    /\ result' = Tree_verify(Graph)
    /\ UNCHANGED <<INIT_HASHER, vals, nodes, root, history, appended, orderVars, concVars, twoVars>>

\* tree = Tree.from_iter(values) with newly constructed Values, as the first
\* statement of the program (main.py lines 106-107).
FromIter(values) ==
    LET S == Tree_from_iter(values)
    IN  /\ nodes = <<>>
        /\ Held(values, Len(values)) <= MaxHeld
        /\ vals' = S.vals
        /\ nodes' = S.nodes
        /\ root' = S.root
        /\ history' = [i \in 1..Len(values) |-> i]
        /\ appended' = [i \in 1..Len(values) |-> digest(values[i])]
        /\ result' = "none"
        /\ UNCHANGED <<INIT_HASHER, orderVars, concVars, twoVars>>

Next ==
    \/ \E v \in Values : AppendNew(v)
    \/ \E value \in 1..Len(vals) : AppendHeld(value)
    \/ \E value \in 1..Len(vals) : \E i \in 1..MaxItems : \E s \in Contents :
          Mutate(value, i, s)
    \/ Verify
    \/ /\ nodes = <<>>
       /\ \E values \in SeqsUpTo(Values, MaxNodes) : FromIter(values)

Spec == Init /\ [][Next]_vars

----------------------------------------------------------------------------
(* A caller that builds the same Values in two orders: two chains with      *)
(* Tree.from_iter and, when the Values are Strings, two Arrays.             *)

\* The permutations of 1..n.
Perms(n) == {p \in [1..n -> 1..n] : \A i, j \in 1..n : i # j => p[i] # p[j]}

\* The orders of the Values of sequence s.
Orders(s) == {[i \in 1..Len(s) |-> s[p[i]]] : p \in Perms(Len(s))}

\* tree.root.hash of the Tree that from_iter builds of values.
TailHash(values) ==
    LET S == Tree_from_iter(values) IN Node_hash(S.nodes[S.root])

\* Every Value of sequence s is a String.
AllStrings(s) == \A i \in 1..Len(s) : s[i].cls = "String"

InitOrder ==
    /\ INIT_HASHER = sha256("")
    /\ vals = <<>>
    /\ nodes = <<>>
    /\ root = None
    /\ result = "none"
    /\ history = <<>>
    /\ appended = <<>>
    /\ xs \in SeqsUpTo(Values, MaxSeq)
    /\ xs # <<>>
    /\ Held(xs, Len(xs)) <= MaxHeld
    /\ ys \in Orders(xs)
    /\ pc = "chainX"
    /\ tailX = ""
    /\ tailY = ""
    /\ arrX = ""
    /\ arrY = ""
    /\ ConcOff
    /\ TwoOff

\* Tree.from_iter(xs).root.hash
ChainX ==
    /\ pc = "chainX"
    /\ tailX' = TailHash(xs)
    /\ pc' = "chainY"
    /\ UNCHANGED <<INIT_HASHER, treeVars, concVars, twoVars, xs, ys,
                 tailY, arrX, arrY>>

\* Tree.from_iter(ys).root.hash
ChainY ==
    /\ pc = "chainY"
    /\ tailY' = TailHash(ys)
    /\ pc' = IF AllStrings(xs) THEN "arrayX" ELSE "done"
    /\ UNCHANGED <<INIT_HASHER, treeVars, concVars, twoVars, xs, ys,
                 tailX, arrX, arrY>>

\* Array(xs).digest
ArrayX ==
    /\ pc = "arrayX"
    /\ arrX' = digest(Array(xs))
    /\ pc' = "arrayY"
    /\ UNCHANGED <<INIT_HASHER, treeVars, concVars, twoVars, xs, ys,
                 tailX, tailY, arrY>>

\* Array(ys).digest
ArrayY ==
    /\ pc = "arrayY"
    /\ arrY' = digest(Array(ys))
    /\ pc' = "done"
    /\ UNCHANGED <<INIT_HASHER, treeVars, concVars, twoVars, xs, ys,
                 tailX, tailY, arrX>>

\* tree.append(xs[k]) on a Tree created empty, for k = 1, 2, ... in turn.
AppendNextX ==
    /\ pc = "done"
    /\ Len(history) < Len(xs)
    /\ AppendObject(Append(vals, xs[Len(history) + 1]), Len(vals) + 1)

NextOrder == ChainX \/ ChainY \/ ArrayX \/ ArrayY \/ AppendNextX

SpecOrder == InitOrder /\ [][NextOrder]_vars

----------------------------------------------------------------------------
(* Threads on one Tree: two threads that each call append once, with or     *)
(* without a mutex of the callers around the call, and one thread that      *)
(* calls verify.  A thread can be preempted between two reads or writes of  *)
(* tree._root; Nodes, once constructed, and Values are not written.         *)

\* The comparison of orders is not running.
OrderOff ==
    /\ xs = <<>>
    /\ ys = <<>>
    /\ pc = "off"
    /\ tailX = ""
    /\ tailY = ""
    /\ arrX = ""
    /\ arrY = ""

\* The heaps of Values at the start: those of the chain built before, then
\* the two Values the threads will append.
StartHeaps ==
    {init \o <<v1, v2>> :
        init \in SeqsUpTo(Strings, MaxInit), v1 \in Values, v2 \in Values}

InitConc ==
    /\ INIT_HASHER = sha256("")
    /\ vals \in StartHeaps
    /\ Held(vals, Len(vals)) <= MaxHeld
    /\ nodes = Tree_from_iter(SubSeq(vals, 1, Len(vals) - 2)).nodes
    /\ root = Tree_from_iter(SubSeq(vals, 1, Len(vals) - 2)).root
    /\ result = "none"
    /\ history = [i \in 1..(Len(vals) - 2) |-> i]
    /\ appended = [i \in 1..(Len(vals) - 2) |-> digest(vals[i])]
    /\ OrderOff
    /\ serialized \in BOOLEAN
    /\ lock = None
    /\ apc = [t \in Appenders |-> "start"]
    /\ avalue = [t \in Appenders |-> Len(vals) - 2 + t]
    /\ aparent = [t \in Appenders |-> None]
    /\ anew = [t \in Appenders |-> None]
    /\ vpc = "start"
    /\ vfirst = None
    /\ vhex = ""
    /\ vlast = None
    /\ TwoOff

\* Thread t takes the callers' mutex before it calls append.
Acquire(t) ==
    /\ serialized
    /\ apc[t] = "start"
    /\ lock = None
    /\ lock' = t
    /\ UNCHANGED <<INIT_HASHER, treeVars, orderVars, twoVars, serialized, apc,
                   avalue, aparent, anew, vpc, vfirst, vhex, vlast>>

\* Thread t in Tree.append, line 75: self.root is read and the Node is
\* constructed on it.
AppendRead(t) ==
    /\ apc[t] = "start"
    /\ serialized => lock = t
    /\ aparent' = [aparent EXCEPT ![t] = root]
    /\ nodes' = Append(nodes, Node(Graph, avalue[t], root))
    /\ anew' = [anew EXCEPT ![t] = Len(nodes) + 1]
    /\ history' = Append(history, avalue[t])
    /\ appended' = Append(appended, digest(vals[avalue[t]]))
    /\ apc' = [apc EXCEPT ![t] = "write"]
    /\ UNCHANGED <<INIT_HASHER, vals, root, result, orderVars, twoVars,
                   serialized, lock, avalue, vpc, vfirst, vhex, vlast>>

\* Thread t in Tree.append, line 75: the Node is stored in self._root.
AppendWrite(t) ==
    /\ apc[t] = "write"
    /\ root' = anew[t]
    /\ apc' = [apc EXCEPT ![t] = "done"]
    /\ UNCHANGED <<INIT_HASHER, vals, nodes, result, history, appended,
                   orderVars, twoVars, serialized, lock, avalue, aparent, anew,
                   vpc, vfirst, vhex, vlast>>

\* Thread t gives the callers' mutex back after append has returned.
Release(t) ==
    /\ serialized
    /\ apc[t] = "done"
    /\ lock = t
    /\ lock' = None
    /\ UNCHANGED <<INIT_HASHER, treeVars, orderVars, twoVars, serialized, apc,
                   avalue, aparent, anew, vpc, vfirst, vhex, vlast>>

\* Tree.verify, lines 93-100: self.root is read once, the walk follows the
\* predecessor links from it and the digest is recomputed.
VerifyWalk ==
    /\ vpc = "start"
    /\ vfirst' = root
    /\ vhex' = Recomputed(Graph)
    /\ vpc' = "check"
    /\ UNCHANGED <<INIT_HASHER, treeVars, orderVars, twoVars, serialized, lock,
                   apc, avalue, aparent, anew, vlast>>

\* Tree.verify, line 101: self.root is read again for the test for None.
VerifyCheck ==
    /\ vpc = "check"
    /\ vpc' = IF root # None THEN "compare" ELSE "done"
    /\ result' = IF root # None THEN result ELSE "ok"
    /\ UNCHANGED <<INIT_HASHER, vals, nodes, root, history, appended,
                   orderVars, twoVars, serialized, lock, apc, avalue, aparent,
                   anew, vfirst, vhex, vlast>>

\* Faulty line 102: the hash is taken from the Node the walk started at.
VerifyCompare_Snapshot ==
    /\ vpc = "compare"
    /\ vlast' = root
    /\ result' = IF vfirst # None /\ vhex # Node_hash(nodes[vfirst])
                 THEN "AssertionError" ELSE "ok"
    /\ vpc' = "done"
    /\ UNCHANGED <<INIT_HASHER, vals, nodes, root, history, appended,
                   orderVars, twoVars, serialized, lock, apc, avalue, aparent,
                   anew, vfirst, vhex>>

\* Tree.verify, line 102: self.root is read once more and its hash is
\* compared with the recomputed hexdigest.
VerifyCompare ==
    /\ vpc = "compare"
    /\ vlast' = root
    /\ result' = IF vhex = Node_hash(nodes[root]) THEN "ok" ELSE "AssertionError"
    /\ vpc' = "done"
    /\ UNCHANGED <<INIT_HASHER, vals, nodes, root, history, appended,
                   orderVars, twoVars, serialized, lock, apc, avalue, aparent,
                   anew, vfirst, vhex>>

NextConc ==
    \/ \E t \in Appenders : Acquire(t)
    \/ \E t \in Appenders : AppendRead(t)
    \/ \E t \in Appenders : AppendWrite(t)
    \/ \E t \in Appenders : Release(t)
    \/ VerifyWalk
    \/ VerifyCheck
    \/ VerifyCompare

SpecConc == InitConc /\ [][NextConc]_vars

----------------------------------------------------------------------------
(* Two Trees in one program.  Tree._root is a class attribute; append       *)
(* assigns self._root, which makes an instance attribute of that Tree.      *)

\* Tree.root of Tree t: the instance attribute if there is one, else the
\* class attribute.
RootOf(t) == IF inst_root[t] # <<>> THEN inst_root[t][1] ELSE cls_root

\* The object graph as Tree t sees it.
GraphOf(t) == [vals |-> vals, nodes |-> nodes, root |-> RootOf(t)]

\* Faulty use of INIT_HASHER: the accumulator that is updated is INIT_HASHER
\* itself, not a copy of it.
SeedAfter_NoCopy(seed, used) == used

\* INIT_HASHER after an accumulator obtained by INIT_HASHER.copy() has been
\* updated to the stream used: the copy is another object, the seed stays.
SeedAfter(seed, used) == seed

\* The stream of the last accumulator that Node(value, parent) on graph S
\* copies from INIT_HASHER and updates: the Node's own when it has no
\* predecessor, else the one of Array.digest, else none.
SeedUse(S, value) ==
    IF S.root = None THEN Node(S, value, S.root).hasher
    ELSE IF S.vals[value].cls = "Array"
         THEN FeedItems(copy(INIT_HASHER), S.vals[value].items, 1)
         ELSE INIT_HASHER

\* Faulty append: the new tail is stored in the class attribute.
AppendTo_Class(t, v) ==
    LET S == Tree_append([vals |-> Append(vals, v), nodes |-> nodes,
                          root |-> RootOf(t)], Len(vals) + 1)
    IN  /\ Len(nodes) < MaxNodes
        /\ Held(vals, Len(vals)) + Len(v.items) <= MaxHeld
        /\ vals' = S.vals
        /\ nodes' = S.nodes
        /\ cls_root' = S.root
        /\ logs' = [logs EXCEPT ![t] = Append(@, Len(vals) + 1)]
        /\ history' = Append(history, Len(vals) + 1)
        /\ appended' = Append(appended, digest(v))
        /\ result' = "none"
        /\ INIT_HASHER' = INIT_HASHER
        /\ UNCHANGED <<root, inst_root, orderVars, concVars>>

\* Tree t: append(v) with a newly constructed Value v.
AppendTo(t, v) ==
    LET S0 == [vals |-> Append(vals, v), nodes |-> nodes, root |-> RootOf(t)]
        S == Tree_append(S0, Len(vals) + 1)
    IN  /\ Len(nodes) < MaxNodes
        /\ Held(vals, Len(vals)) + Len(v.items) <= MaxHeld
        /\ vals' = S.vals
        /\ nodes' = S.nodes
        /\ inst_root' = [inst_root EXCEPT ![t] = <<S.root>>]
        /\ logs' = [logs EXCEPT ![t] = Append(@, Len(vals) + 1)]
        /\ history' = Append(history, Len(vals) + 1)
        /\ appended' = Append(appended, digest(v))
        /\ result' = "none"
        /\ INIT_HASHER' = SeedAfter(INIT_HASHER, SeedUse(S0, Len(vals) + 1))
        /\ UNCHANGED <<root, cls_root, orderVars, concVars>>

\* Tree t: verify()
VerifyTree(t) ==
    /\ result' = Tree_verify(GraphOf(t))
    /\ INIT_HASHER' =
          SeedAfter(INIT_HASHER,
                    FeedNodes(GraphOf(t), copy(INIT_HASHER),
                              Ancestors(GraphOf(t), RootOf(t), <<>>), 1))
    /\ UNCHANGED <<vals, nodes, root, history, appended, orderVars, concVars,
                   twoVars>>

NextTwo ==
    \/ \E t \in Trees : \E v \in Values : AppendTo(t, v)
    \/ \E t \in Trees : VerifyTree(t)

SpecTwo == Init /\ [][NextTwo]_vars

----------------------------------------------------------------------------
(* Properties of the program Spec. *)

\* The Value Node n holds has another digest now than when n was constructed.
Tampered(n) == digest(vals[nodes[n].value]) # appended[n]

\* No Node of the chain holds a Value whose digest has changed.
Untampered == \A n \in 1..Len(nodes) : ~Tampered(n)

\* The step is a call of append (or from_iter of one value, which is one).
AppendStep == Len(history') = Len(history) + 1

\* The step replaced an item of an Array by a String of other content.
TamperStep == vals' # vals /\ nodes' = nodes /\ root' = root

\* C1: on a chain on which verify() succeeds, replacing an item of an Array
\* held by any Node (tail or interior) by a String of other content makes the
\* next verify() raise AssertionError.
C1_TamperDetected ==
    [][(TamperStep /\ Tree_verify(Graph) = "ok")
          => Tree_verify(Graph)' = "AssertionError"]_vars

\* C1 witness: verify() has failed on a chain whose interior Node holds a
\* tampered Array while the tail's Value is as appended.
C1_Witness ==
    /\ result = "AssertionError"
    /\ Len(nodes) >= 2
    /\ \E n \in 1..Len(nodes) : n # root /\ Tampered(n)
    /\ ~Tampered(root)

\* C2: on a chain none of whose values has changed digest since it was
\* appended, append(v) leaves a chain on which verify() succeeds and which
\* has exactly one more Node reachable from the tail.
C2_AppendMonotone ==
    [][(AppendStep /\ Untampered)
          => /\ Tree_verify(Graph)' = "ok"
             /\ Len(Tree_repr(Graph))' = Len(Tree_repr(Graph)) + 1]_vars

\* C2 witness: verify() has succeeded on a chain of two appends.
C2_Witness ==
    /\ Len(history) = 2
    /\ Untampered
    /\ result = "ok"
    /\ Len(Tree_repr(Graph)) = 2

\* The byte stream Node n's accumulator was copied from: its predecessor's
\* stream, or the stream of INIT_HASHER.
Inherited(n) ==
    IF nodes[n].parent = None THEN INIT_HASHER
    ELSE nodes[nodes[n].parent].hasher

\* C3, as stated: every Node's hash is H(predecessor's digest ++ the digest of
\* the Node's value), with nothing in place of the predecessor's digest for a
\* Node without predecessor.
C3_Original ==
    \A n \in 1..Len(nodes) :
        Node_hash(nodes[n]) =
            hexdigest(update(sha256(IF nodes[n].parent = None THEN ""
                                    ELSE sha256_digest(nodes[nodes[n].parent].hasher)),
                             digest(vals[nodes[n].value])))

\* C3, amended: every Node's hash is H(B ++ d), where B is the byte stream fed
\* to its predecessor's accumulator (empty without predecessor) and d is the
\* digest the Node's value had when the Node was constructed.
C3_Recurrence ==
    \A n \in 1..Len(nodes) :
        Node_hash(nodes[n]) = hexdigest(update(sha256(Inherited(n)), appended[n]))

\* C3 witness: a Node with a predecessor, and a Node whose value has changed
\* digest since.
C3_Witness ==
    /\ \E n \in 1..Len(nodes) : nodes[n].parent # None
    /\ \E n \in 1..Len(nodes) : Tampered(n)

\* The tail's hash of the chain from_iter builds of the one String x.
SingleTail(x) ==
    LET S == Tree_from_iter(<<x>>) IN Node_hash(S.nodes[S.root])

\* C4, as stated: the chain of the single String x has the tail hash
\* H(H(empty) ++ H(x)).
C4_Original ==
    (Len(history) = 1 /\ vals[history[1]].cls = "String")
        => LET x == vals[history[1]]
               seeded == hexdigest(update(sha256(sha256_digest(sha256(""))),
                                          String_digest(x)))
           IN  Node_hash(nodes[root]) = seeded /\ SingleTail(x) = seeded

\* C4, amended: the chain of the single String x has the tail hash
\* H(empty ++ H(x)) = H(H(x)): the accumulator starts with no input, and the
\* digest of the empty input is not fed to it.
C4_SingleSeed ==
    (Len(history) = 1 /\ vals[history[1]].cls = "String")
        => LET x == vals[history[1]]
               seeded == hexdigest(update(sha256(""), String_digest(x)))
           IN  Node_hash(nodes[root]) = seeded /\ SingleTail(x) = seeded

\* C4 witness: the chain of one non-empty String.
C4_Witness ==
    /\ Len(history) = 1
    /\ root # None
    /\ vals[history[1]] = String("a")

\* C6: no step changes the hash of a Node that exists: not an append, not the
\* replacement of an item of the value it holds, not verify().
C6_StoredDigestImmutable ==
    [][\A n \in 1..Len(nodes) :
          /\ n <= Len(nodes')
          /\ Node_hash(nodes'[n]) = Node_hash(nodes[n])]_vars

\* C6 witness: a Node whose value was tampered with has a successor, and
\* verify() has run.
C6_Witness ==
    /\ \E n \in 1..Len(nodes) : Tampered(n) /\ n # root
    /\ result # "none"

\* C7: verify() changes neither the tail nor any Node nor any Value, and a
\* verify() that follows a verify() directly has the same outcome.
C7_VerifyReadOnly ==
    [][result' # "none"
          => /\ UNCHANGED <<INIT_HASHER, vals, nodes, root>>
             /\ result # "none" => result' = result]_vars

\* C7 witness: verify() has failed on a chain of two Nodes.
C7_Witness ==
    /\ result = "AssertionError"
    /\ Len(Tree_repr(Graph)) = 2

\* C8: a Tree without appends has no tail, and verify() on it succeeds.
C8_EmptyChain ==
    history = <<>>
        => /\ root = None
           /\ Tree_verify(Graph) = "ok"
           /\ result \in {"none", "ok"}

\* C8 witness: verify() has returned on the Tree without appends.
C8_Witness ==
    /\ history = <<>>
    /\ root = None
    /\ result = "ok"

\* The Values held by the Nodes of a walk, in walking order.
Held_by(walk) == [i \in 1..Len(walk) |-> nodes[walk[i]].value]

\* Sequence s backwards.
Reverse(s) == [i \in 1..Len(s) |-> s[Len(s) + 1 - i]]

\* C9: the walk from the tail visits as many Nodes as there were appends,
\* holding the appended Values last-first; an append makes the tail of before
\* the predecessor of the new tail and leaves every Node's link and value.
C9_AppendOnlyHistory ==
    /\ [](Held_by(Tree_repr(Graph)) = Reverse(history))
    /\ [][AppendStep
            => /\ root' # None
               /\ nodes'[root'].parent = root
               /\ \A n \in 1..Len(nodes) :
                     /\ n <= Len(nodes')
                     /\ nodes'[n].parent = nodes[n].parent
                     /\ nodes'[n].value = nodes[n].value]_vars

\* C9 witness: two appends of distinct Values, walked.
C9_Witness ==
    /\ Len(history) = 2
    /\ history[1] # history[2]
    /\ Held_by(Tree_repr(Graph)) = <<history[2], history[1]>>

----------------------------------------------------------------------------
(* Properties of the comparison of orders, SpecOrder. *)

\* The digests of the Values of sequence s, in order.
Digests(s) == [i \in 1..Len(s) |-> digest(s[i])]

\* C5, as stated: two or more Values appended to two fresh chains in two
\* different orders give two different tail hashes.
C5_Original ==
    (pc \in {"arrayX", "done"} /\ Len(xs) >= 2 /\ ys # xs) => tailX # tailY

\* C5, amended: two or more Values appended to two fresh chains in two orders
\* give two different tail hashes when the two orders differ in the digest of
\* the Value at some position (String("") and Array([]) are different Values
\* with the same digest).
C5_ChainOrder ==
    (pc \in {"arrayX", "done"} /\ Len(xs) >= 2 /\ Digests(ys) # Digests(xs))
        => tailX # tailY

\* C5 witness: a String and a non-empty Array, chained in both orders.
C5_Witness ==
    /\ pc = "done"
    /\ Len(xs) = 2
    /\ xs[1].cls = "String"
    /\ xs[2].cls = "Array" /\ xs[2].items # <<>>
    /\ ys = <<xs[2], xs[1]>>
    /\ tailX # "" /\ tailY # ""

\* C10: for Strings a and b of different content, the digests of
\* Array([a, b]) and Array([b, a]) differ.
C10_CompositeOrder ==
    (/\ pc = "done"
     /\ AllStrings(xs)
     /\ Len(xs) = 2
     /\ xs[1].s # xs[2].s
     /\ ys = <<xs[2], xs[1]>>)
        => arrX # arrY

\* C10 witness: the digests of Array(["", "a"]) and Array(["a", ""]) are
\* both computed.
C10_Witness ==
    /\ pc = "done"
    /\ xs = <<String(""), String("a")>>
    /\ ys = <<String("a"), String("")>>
    /\ arrX # "" /\ arrY # ""

\* The Values held by the Nodes of graph S, walked from the tail.
WalkedValues(S) ==
    [i \in 1..Len(Tree_repr(S)) |-> S.vals[S.nodes[Tree_repr(S)[i]].value]]

\* C11: the chain from_iter builds of xs has the tail hash, the number of
\* Nodes and the Values in predecessor order of the chain that one append per
\* value of xs, in order, builds on a Tree created empty.
C11_FromIterEquivalence ==
    (pc = "done" /\ Len(history) = Len(xs))
        => LET S == Tree_from_iter(xs)
           IN  /\ tailX = Node_hash(nodes[root])
               /\ Node_hash(S.nodes[S.root]) = Node_hash(nodes[root])
               /\ Len(Tree_repr(S)) = Len(Tree_repr(Graph))
               /\ WalkedValues(S) = WalkedValues(Graph)

\* C16: for a non-empty sequence of Strings, the digest of the Array of them
\* is the tail digest of the chain built by appending them in order (the tail
\* hash is that digest in hexadecimal).
C16_SameFold ==
    /\ (pc \in {"arrayY", "done"} /\ AllStrings(xs)) => tailX = hex(arrX)
    /\ (pc = "done" /\ AllStrings(xs)) => tailY = hex(arrY)

\* C16 witness: an Array of three Strings and the chain of them.
C16_Witness ==
    /\ pc = "done"
    /\ Len(xs) = 3
    /\ AllStrings(xs)
    /\ xs[1] # xs[2]
    /\ arrX # "" /\ tailX = hex(arrX)

\* C11 witness: three appends of Values that are not all the same have built
\* the second chain.
C11_Witness ==
    /\ pc = "done"
    /\ Len(xs) = 3
    /\ Len(history) = 3
    /\ xs[1] # xs[3]
    /\ root # None

\* The chain seen from Node n: the graph with n as its tail.
Upto(n) == [Graph EXCEPT !.root = n]

\* C12: on a chain whose values have the digests they were appended with,
\* every Node (the tail and each interior Node) has the hash that verify's
\* recomputation gives for the chain that ends at that Node: one accumulator,
\* copied from INIT_HASHER, fed the digests of the values oldest first.
C12_PrefixDigest ==
    Untampered
        => \A n \in 1..Len(nodes) : Node_hash(nodes[n]) = Recomputed(Upto(n))

\* C12 witness: a chain of three Nodes with an Array in the middle, untampered.
C12_Witness ==
    /\ Len(nodes) = 3
    /\ Len(Tree_repr(Graph)) = 3
    /\ Untampered
    /\ vals[nodes[2].value].cls = "Array"
    /\ vals[nodes[2].value].items # <<>>

\* C13: in every state that appends and replacements of Array items reach,
\* verify() on a chain with a tail succeeds exactly when every Node's value
\* has the digest it had when the Node was constructed; the outcome of a
\* verify() that has just returned agrees.
C13_VerifyCharacterized ==
    /\ root # None => (Tree_verify(Graph) = "ok" <=> Untampered)
    /\ (root # None /\ result = "ok") => Untampered
    /\ result = "AssertionError" => ~Untampered

\* C13 witness: verify() has failed on a chain whose first Node was tampered
\* with and whose tail, appended with another Value object, was not.
C13_Witness ==
    /\ result = "AssertionError"
    /\ Len(nodes) = 3
    /\ Tampered(1)
    /\ nodes[3].value # nodes[1].value
    /\ ~Tampered(3)

----------------------------------------------------------------------------
(* Properties of the threads, SpecConc. *)

\* C14, as stated: when an append has replaced the tail between the read
\* verify walks from and the read verify compares with, verify raises
\* AssertionError.
C14_Original ==
    (vpc = "done" /\ vlast # vfirst) => result = "AssertionError"

\* C14, amended: when an append has replaced the tail between the read verify
\* walks from and the read verify compares with, and the new tail's chain
\* continues the chain verify walked (as it does whenever the appends are
\* serialized), verify raises AssertionError, on a chain whose values have the
\* digests they were appended with.
C14_VerifyRacesAppend ==
    (/\ vpc = "done"
     /\ vlast # vfirst
     /\ (vfirst = None \/ vfirst \in {Visit(Graph, vlast)[i] :
                                        i \in 1..Len(Visit(Graph, vlast))}))
        => result = "AssertionError" /\ Untampered

\* C14 witness: verify walked from the tail of the chain built before, an
\* append replaced the tail, and verify has raised.
C14_Witness ==
    /\ vpc = "done"
    /\ vfirst # None
    /\ vlast # vfirst
    /\ nodes[vlast].parent = vfirst
    /\ result = "AssertionError"
    /\ Untampered

\* Both threads have returned from append.
BothAppended == \A t \in Appenders : apc[t] = "done"

\* C15: when both appends read the same tail (each before the other wrote),
\* the chain has one Node more than before and holds only one of the two new
\* Nodes; otherwise it has two Nodes more.  Under the callers' mutex the two
\* appends never read the same tail.
C15_LostUpdate ==
    BothAppended
        => /\ aparent[1] = aparent[2]
                => /\ Len(Tree_repr(Graph)) + 1 = Len(nodes)
                   /\ \E t \in Appenders :
                         anew[t] \notin {Tree_repr(Graph)[i] :
                                           i \in 1..Len(Tree_repr(Graph))}
           /\ aparent[1] # aparent[2] => Len(Tree_repr(Graph)) = Len(nodes)
           /\ serialized => aparent[1] # aparent[2]

\* C15 witness: both appends read the tail of the chain built before, and
\* one of the two new Nodes is not in the chain.
C15_Witness ==
    /\ BothAppended
    /\ ~serialized
    /\ aparent[1] = aparent[2]
    /\ aparent[1] # None
    /\ Len(nodes) = 3
    /\ Len(Tree_repr(Graph)) = 2

----------------------------------------------------------------------------
(* Properties of the two Trees, SpecTwo. *)

\* The Values appended to Tree t, in order.
LogValues(t) == [i \in 1..Len(logs[t]) |-> vals[logs[t][i]]]

\* C17: no append and no verify (and no digest taken within them) changes
\* INIT_HASHER; a step that appends nothing to Tree t leaves t's tail; and
\* the tail hash of each Tree is the one the Values appended to that Tree
\* give on their own, whatever was done with the other Tree before.
C17_SeedAndChainsIndependent ==
    /\ [][INIT_HASHER' = INIT_HASHER]_vars
    /\ [][\A t \in Trees : logs'[t] = logs[t] => RootOf(t)' = RootOf(t)]_vars
    /\ [](\A t \in Trees :
            IF logs[t] = <<>> THEN RootOf(t) = None
            ELSE /\ RootOf(t) # None
                 /\ Node_hash(nodes[RootOf(t)]) = TailHash(LogValues(t)))

\* C17 witness: Tree 1 got an Array, then Tree 2 a String, then Tree 1 a
\* String, and verify has succeeded.
C17_Witness ==
    /\ logs[1] = <<1, 3>>
    /\ logs[2] = <<2>>
    /\ vals[1].cls = "Array" /\ vals[1].items # <<>>
    /\ result = "ok"
    /\ INIT_HASHER = sha256("")

====
